---- MODULE Spec2Model ----
(***************************************************************************)
(* Model of src/roadmaps.rs: the context-window assembly (build_message)   *)
(* and the two asynchronous operations built on it                         *)
(* (is_message_roadmap_request, create_roadmap).                           *)
(*                                                                         *)
(* A Rust String is modelled as a sequence of characters; String::len()    *)
(* is the UTF-8 byte length, so every character carries its encoded width. *)
(* The text of an upstream reply is modelled by its JSON structure, which  *)
(* is all serde_json::from_str looks at.                                   *)
(***************************************************************************)
EXTENDS Integers, Sequences, FiniteSets, TLC

VARIABLES
    ROADMAP_CONFIG,  \* the lazy_static RoadmapConfig
    calls,           \* one record per call of the two async operations
    b_in,            \* arguments of a direct build_message call
    b_out            \* what that call returned

vars == <<ROADMAP_CONFIG, calls, b_in, b_out>>

----------------------------------------------------------------------------
(* Bounds of the model *)

MaxMessageChars == 2     \* characters in a message
MaxContextEntries == 3   \* entries in a context list
MaxLimit == 6            \* small values of message_limit_chars: 0..MaxLimit
NumCalls == 2            \* calls in flight at once
MaxChoices == 2          \* completion choices in one upstream reply

(* Program constants *)

DefaultContextLength == 3
DefaultMessageLimitChars == 2048

----------------------------------------------------------------------------
(* Strings *)

\* one 1-byte character and one 2-byte character (U+00E9)
E_ACUTE == "U+00E9"
Chars == {"a", E_ACUTE}

utf8_width(c) == IF c = E_ACUTE THEN 2 ELSE 1

\* String::len(): the length in bytes
RECURSIVE len(_)
len(s) == IF s = <<>> THEN 0 ELSE utf8_width(Head(s)) + len(Tail(s))

StringsUpTo(n) == UNION {[1..k -> Chars] : k \in 0..n}

Messages == StringsUpTo(MaxMessageChars)

\* the strings a context list is made of: empty, 1 byte, 2 bytes in one
\* character, 2 bytes in two characters
ContextEntries == {<<>>, <<"a">>, <<E_ACUTE>>, <<"a", "a">>}

Contexts == UNION {[1..k -> ContextEntries] : k \in 0..MaxContextEntries}

----------------------------------------------------------------------------
(* Configuration and the two prompts *)

RoadmapConfig_default ==
    [context_length |-> DefaultContextLength,
     message_limit_chars |-> DefaultMessageLimitChars]

\* the contents of the two prompt files, opaque
DETECT_ROADMAP_PROMPT == <<"prompts/detect_roadmap.txt">>
CREATE_ROADMAP_PROMPT == <<"prompts/create_roadmap_for_user.txt">>

\* the configurations build_message is examined under: the default one and
\* every small one
Configs ==
    [context_length : 0..DefaultContextLength,
     message_limit_chars : (0..MaxLimit) \cup {DefaultMessageLimitChars}]

----------------------------------------------------------------------------
(* Chat messages *)

Some(x) == [some |-> TRUE, val |-> x]
None == [some |-> FALSE, val |-> <<>>]

system_message_detection ==
    [role |-> "System", content |-> Some(DETECT_ROADMAP_PROMPT),
     name |-> "None", function_call |-> "None"]

system_message_creation ==
    [role |-> "System", content |-> Some(CREATE_ROADMAP_PROMPT),
     name |-> "None", function_call |-> "None"]

user_message(message) ==
    [role |-> "User", content |-> Some(message),
     name |-> "None", function_call |-> "None"]

----------------------------------------------------------------------------
(* build_message *)

\* context.into_iter().take(context_length)
take(context, n) ==
    SubSeq(context, 1, IF Len(context) < n THEN Len(context) ELSE n)

\* String::insert_str(0, s)
insert_str_0(buffer, s) == s \o buffer

\* The for loop of build_message over the entries still to come. taken is
\* the number of entries the iterator has yielded and the body has accepted;
\* the loop ends at the end of the iterator or at the first break.
RECURSIVE build_loop_skip(_, _, _, _)
build_loop_skip(rest, taken, message_length, message_buffer) ==
    IF rest = <<>>
    THEN [taken |-> taken, message_length |-> message_length,
          message_buffer |-> message_buffer]
    ELSE IF message_length + len(Head(rest)) > ROADMAP_CONFIG.message_limit_chars
         THEN build_loop_skip(Tail(rest), taken, message_length, message_buffer)
         ELSE build_loop_skip(Tail(rest), taken + 1,
                              message_length + len(Head(rest)),
                              insert_str_0(message_buffer, Head(rest)))

RECURSIVE build_loop_append(_, _, _, _)
build_loop_append(rest, taken, message_length, message_buffer) ==
    IF rest = <<>>
    THEN [taken |-> taken, message_length |-> message_length,
          message_buffer |-> message_buffer]
    ELSE IF message_length + len(Head(rest)) > ROADMAP_CONFIG.message_limit_chars
         THEN [taken |-> taken, message_length |-> message_length,
               message_buffer |-> message_buffer]
         ELSE build_loop_append(Tail(rest), taken + 1,
                                message_length + len(Head(rest)),
                                message_buffer \o Head(rest))

RECURSIVE build_loop(_, _, _, _)
build_loop(rest, taken, message_length, message_buffer) ==
    IF rest = <<>>
    THEN [taken |-> taken, message_length |-> message_length,
          message_buffer |-> message_buffer]
    ELSE IF message_length + len(Head(rest)) > ROADMAP_CONFIG.message_limit_chars
         THEN [taken |-> taken, message_length |-> message_length,
               message_buffer |-> message_buffer]
         ELSE build_loop(Tail(rest), taken + 1,
                         message_length + len(Head(rest)),
                         insert_str_0(message_buffer, Head(rest)))

\* the loop run from its initial state to its exit
build_walk_take_one_more(message, context) ==
    build_loop(take(context, ROADMAP_CONFIG.context_length + 1), 0,
               len(message), message)

build_walk(message, context) ==
    build_loop(take(context, ROADMAP_CONFIG.context_length), 0,
               len(message), message)

build_message(message, context, system_message) ==
    <<system_message, user_message(build_walk(message, context).message_buffer)>>

----------------------------------------------------------------------------
(* The upstream reply *)

\* A JSON value as serde_json sees it: its type and, for a string or a
\* boolean, its text.
JString(s) == [t |-> "string", s |-> s]
JBool(s) == [t |-> "bool", s |-> s]
JAbsent == [t |-> "absent", s |-> ""]

\* The text of a reply, by its JSON structure: not JSON at all, a JSON
\* object with (or without) the members reason and is_roadmap, or a JSON
\* array whose first two elements stand where those members would.
Prose(body) ==
    [form |-> "prose", body |-> body, reason |-> JAbsent, is_roadmap |-> JAbsent]
Object(reason, is_roadmap) ==
    [form |-> "object", body |-> "", reason |-> reason, is_roadmap |-> is_roadmap]
Array(first, second) ==
    [form |-> "array", body |-> "", reason |-> first, is_roadmap |-> second]

Texts ==
    {Prose(""), Prose("not json"),
     Object(JString("user asked for a plan"), JBool("true")),
     Object(JString("small talk"), JBool("false")),
     Object(JString("user asked for a plan"), JAbsent),
     Object(JString("user asked for a plan"), JString("true")),
     Array(JString("user asked for a plan"), JBool("true"))}

\* a completion choice: only its message's content is read
Choice(content) == [message |-> [role |-> "Assistant", content |-> content]]

FirstChoices == {Choice(None)} \cup {Choice(Some(t)) : t \in Texts}
OtherChoice == Choice(Some(Prose("Step 1...")))

\* the outcome of .create().await: Err(e), or Ok(chat_completion) with no
\* choice, one choice or MaxChoices choices; the first choice varies, the
\* later ones are never read
Outcomes ==
    {[ok |-> FALSE, choices |-> <<>>]}
    \cup {[ok |-> TRUE, choices |-> <<>>]}
    \cup {[ok |-> TRUE, choices |-> <<c>> \o [j \in 1..k |-> OtherChoice]] :
            c \in FirstChoices, k \in {0, MaxChoices - 1}}

NoOutcome == [ok |-> FALSE, choices |-> <<>>]

----------------------------------------------------------------------------
(* Results *)

NoText == Prose("")

NoResult ==
    [tag |-> "none", err |-> "", reason |-> "", is_roadmap |-> FALSE,
     roadmap |-> NoText]

\* Ok(RequestingRoadmap { reason, is_roadmap })
Ok_RequestingRoadmap(reason, is_roadmap) ==
    [tag |-> "Ok", err |-> "", reason |-> reason, is_roadmap |-> is_roadmap,
     roadmap |-> NoText]

\* Ok(RoadmapProvided { roadmap })
Ok_RoadmapProvided(roadmap) ==
    [tag |-> "Ok", err |-> "", reason |-> "", is_roadmap |-> FALSE,
     roadmap |-> roadmap]

\* Err(anyhow::Error) by what it wraps: the openai error of `.await?`
\* (UpstreamError), the serde_json error of `from_str(..)?`
\* (MalformedResponse), the bail!("No reply from ChatGPT")
\* (UpstreamEmptyReply)
Err(kind) ==
    [tag |-> "Err", err |-> kind, reason |-> "", is_roadmap |-> FALSE,
     roadmap |-> NoText]

\* serde_json::from_str::<RequestingRoadmap>: the derived Deserialize reads
\* the struct from a JSON object by member name and from a JSON array by
\* position; reason must be a string and is_roadmap a boolean.
from_str(text) ==
    IF /\ text.form \in {"object", "array"}
       /\ text.reason.t = "string"
       /\ text.is_roadmap.t = "bool"
    THEN Ok_RequestingRoadmap(text.reason.s, text.is_roadmap.s = "true")
    ELSE Err("MalformedResponse")

----------------------------------------------------------------------------
(* Calls *)

CallIds == 1..NumCalls

\* what a caller passes to the two operations: a message and a context
CallInputs ==
    {[message |-> <<"a">>, context |-> <<>>],
     [message |-> <<E_ACUTE, "a">>, context |-> << <<"a">>, <<E_ACUTE>> >>]}

Request(messages) == [model |-> "gpt-4o-mini", messages |-> messages]

IdleCall ==
    [pc |-> "idle", op |-> "", message |-> <<>>, context |-> <<>>,
     sent |-> <<>>, outcome |-> NoOutcome, result |-> NoResult]

\* a call whose context is extended by that of a call in flight
Submit_shared(i, op, message, context, system_message) ==
    LET others == {j \in CallIds \ {i} : calls[j].pc = "awaiting"}
        shared == IF others = {} THEN context
                  ELSE calls[CHOOSE j \in others : TRUE].context \o context
    IN /\ calls[i].pc = "idle"
       /\ calls' = [calls EXCEPT ![i] =
                      [pc |-> "awaiting", op |-> op, message |-> message,
                       context |-> context,
                       sent |-> Append(calls[i].sent,
                                   Request(build_message(message, shared,
                                                         system_message))),
                       outcome |-> NoOutcome, result |-> NoResult]]
       /\ UNCHANGED <<ROADMAP_CONFIG, b_in, b_out>>

\* ChatCompletion::builder(model, messages).create(): one request leaves,
\* the future suspends at .await
Submit(i, op, message, context, system_message) ==
    /\ calls[i].pc = "idle"
    /\ calls' = [calls EXCEPT ![i] =
                   [pc |-> "awaiting", op |-> op, message |-> message,
                    context |-> context,
                    sent |-> Append(calls[i].sent,
                                Request(build_message(message, context,
                                                      system_message))),
                    outcome |-> NoOutcome, result |-> NoResult]]
    /\ UNCHANGED <<ROADMAP_CONFIG, b_in, b_out>>

\* the future ends: with a value for its caller, or by a panic
Finish(i, outcome, pc, result) ==
    /\ calls' = [calls EXCEPT ![i].pc = pc, ![i].outcome = outcome,
                              ![i].result = result]
    /\ UNCHANGED <<ROADMAP_CONFIG, b_in, b_out>>

\* is_message_roadmap_request up to .await
is_message_roadmap_request_call(i, message, context) ==
    /\ calls[i].pc = "idle"
    /\ Submit(i, "is_message_roadmap_request", message, context,
              system_message_detection)

\* a transport failure answered by submitting the request once more
is_message_roadmap_request_resume_retry(i, outcome) ==
    /\ calls[i].pc = "awaiting"
    /\ calls[i].op = "is_message_roadmap_request"
    /\ IF ~outcome.ok /\ Len(calls[i].sent) < 2
       THEN /\ calls' = [calls EXCEPT ![i].sent =
                            Append(calls[i].sent, calls[i].sent[1])]
            /\ UNCHANGED <<ROADMAP_CONFIG, b_in, b_out>>
       ELSE IF ~outcome.ok
       THEN Finish(i, outcome, "returned", Err("UpstreamError"))
       ELSE IF outcome.choices = <<>>
       THEN Finish(i, outcome, "panicked", NoResult)
       ELSE LET returned_message == Head(outcome.choices).message
            IN IF returned_message.content.some
               THEN Finish(i, outcome, "returned",
                           from_str(returned_message.content.val))
               ELSE Finish(i, outcome, "returned", Err("UpstreamEmptyReply"))

\* is_message_roadmap_request from .await on
is_message_roadmap_request_resume(i, outcome) ==
    /\ calls[i].pc = "awaiting"
    /\ calls[i].op = "is_message_roadmap_request"
    /\ IF ~outcome.ok
       THEN Finish(i, outcome, "returned", Err("UpstreamError"))
       ELSE IF outcome.choices = <<>>
       THEN Finish(i, outcome, "panicked", NoResult)   \* first().unwrap()
       ELSE LET returned_message == Head(outcome.choices).message
            IN IF returned_message.content.some
               THEN Finish(i, outcome, "returned",
                           from_str(returned_message.content.val))
               ELSE Finish(i, outcome, "returned", Err("UpstreamEmptyReply"))

\* create_roadmap up to .await
create_roadmap_call(i, message, context) ==
    /\ calls[i].pc = "idle"
    /\ Submit(i, "create_roadmap", message, context, system_message_creation)

\* the reply parsed as JSON before it is handed back
create_roadmap_resume_parsing(i, outcome) ==
    /\ calls[i].pc = "awaiting"
    /\ calls[i].op = "create_roadmap"
    /\ IF ~outcome.ok
       THEN Finish(i, outcome, "returned", Err("UpstreamError"))
       ELSE IF outcome.choices = <<>>
       THEN Finish(i, outcome, "panicked", NoResult)
       ELSE LET returned_message == Head(outcome.choices).message
            IN IF returned_message.content.some
               THEN IF returned_message.content.val.form = "prose"
                    THEN Finish(i, outcome, "returned", Err("MalformedResponse"))
                    ELSE Finish(i, outcome, "returned",
                                Ok_RoadmapProvided(returned_message.content.val))
               ELSE Finish(i, outcome, "returned", Err("UpstreamEmptyReply"))

\* create_roadmap from .await on
create_roadmap_resume(i, outcome) ==
    /\ calls[i].pc = "awaiting"
    /\ calls[i].op = "create_roadmap"
    /\ IF ~outcome.ok
       THEN Finish(i, outcome, "returned", Err("UpstreamError"))
       ELSE IF outcome.choices = <<>>
       THEN Finish(i, outcome, "panicked", NoResult)   \* first().unwrap()
       ELSE LET returned_message == Head(outcome.choices).message
            IN IF returned_message.content.some
               THEN Finish(i, outcome, "returned",
                           Ok_RoadmapProvided(returned_message.content.val))
               ELSE Finish(i, outcome, "returned", Err("UpstreamEmptyReply"))

----------------------------------------------------------------------------
(* The two operations, called concurrently *)

NoBuildIn ==
    [message |-> <<>>, context |-> <<>>,
     system_message |-> system_message_detection]
NoBuildOut == [done |-> FALSE, taken |-> 0, messages |-> <<>>]

\* lazy_static: the first use constructs RoadmapConfig::default()
Init ==
    /\ ROADMAP_CONFIG = RoadmapConfig_default
    /\ calls = [i \in CallIds |-> IdleCall]
    /\ b_in = NoBuildIn
    /\ b_out = NoBuildOut

Next ==
    \/ \E i \in CallIds, input \in CallInputs :
          is_message_roadmap_request_call(i, input.message, input.context)
    \/ \E i \in CallIds, outcome \in Outcomes :
          is_message_roadmap_request_resume(i, outcome)
    \/ \E i \in CallIds, input \in CallInputs :
          create_roadmap_call(i, input.message, input.context)
    \/ \E i \in CallIds, outcome \in Outcomes :
          create_roadmap_resume(i, outcome)

Spec == Init /\ [][Next]_vars

----------------------------------------------------------------------------
(* build_message on its own, over every input *)

InitBuild ==
    /\ ROADMAP_CONFIG \in Configs
    /\ calls = [i \in CallIds |-> IdleCall]
    /\ b_in \in [message : Messages, context : Contexts,
                 system_message : {system_message_detection,
                                   system_message_creation}]
    /\ b_out = NoBuildOut

Build ==
    /\ ~b_out.done
    /\ b_out' = [done |-> TRUE,
                 taken |-> build_walk(b_in.message, b_in.context).taken,
                 messages |-> build_message(b_in.message, b_in.context,
                                            b_in.system_message)]
    /\ UNCHANGED <<ROADMAP_CONFIG, calls, b_in>>

NextBuild == Build

SpecBuild == InitBuild /\ [][NextBuild]_vars

----------------------------------------------------------------------------
(* Notions the properties are stated with *)

Min(a, b) == IF a < b THEN a ELSE b

\* the summed String::len() of a list of strings
RECURSIVE SumLen(_)
SumLen(list) == IF list = <<>> THEN 0 ELSE len(Head(list)) + SumLen(Tail(list))

\* c1, ..., ck  |->  ck ++ ... ++ c1
RECURSIVE RevConcat(_)
RevConcat(list) ==
    IF list = <<>> THEN <<>> ELSE RevConcat(Tail(list)) \o Head(list)

Prefix(list, k) == SubSeq(list, 1, k)

\* the length of a string in characters
chars_count(s) == Len(s)

\* the content of the user message build_message returned
BuiltContent == b_out.messages[2].content.val

\* how many entries the walk may look at
Considered == Min(ROADMAP_CONFIG.context_length, Len(b_in.context))

\* the first k entries stay within the budget, one after the other
WithinBudget(k) ==
    \A j \in 1..k :
        len(b_in.message) + SumLen(Prefix(b_in.context, j))
            <= ROADMAP_CONFIG.message_limit_chars

\* the largest such k
LargestWithinBudget ==
    CHOOSE k \in 0..Considered :
        /\ WithinBudget(k)
        /\ \A k2 \in 0..Considered : WithinBudget(k2) => k2 <= k

----------------------------------------------------------------------------
(* build_message: properties of SpecBuild *)

\* C1: the entries build_message puts into the user message are exactly the
\* prefix context[0..k) with k the largest count, within context_length and
\* the list, whose running lengths all stay within message_limit_chars: the
\* walk stops at the first overflowing entry and never goes on to a later,
\* shorter one.
C1_ContiguousPrefix ==
    b_out.done =>
        /\ b_out.taken = LargestWithinBudget
        /\ BuiltContent
             = RevConcat(Prefix(b_in.context, LargestWithinBudget)) \o b_in.message
        /\ len(BuiltContent)
             = len(b_in.message)
                 + SumLen(Prefix(b_in.context, LargestWithinBudget))

\* a walk that accepted an entry, stopped at an overflowing one, and left
\* behind a later entry that would still have fitted
C1_Witness ==
    /\ b_out.done
    /\ b_in.message # <<>>
    /\ b_out.taken >= 1
    /\ b_in.context[1] # <<>>
    /\ b_out.taken < Considered
    /\ \E j \in (b_out.taken + 2)..Considered :
          len(BuiltContent) + len(b_in.context[j])
              <= ROADMAP_CONFIG.message_limit_chars

\* C2: the user message is the accepted entries in reverse of iteration
\* order followed by the message: ck ++ ... ++ c1 ++ message, the message an
\* unmodified suffix, the last accepted entry at the very front, nothing
\* else inserted.
C2_ReverseThenMessage ==
    b_out.done =>
        LET accepted == Prefix(b_in.context, b_out.taken)
            content == BuiltContent
            n == Len(content)
        IN /\ content = RevConcat(accepted) \o b_in.message
           /\ SubSeq(content, n - Len(b_in.message) + 1, n) = b_in.message
           /\ b_out.taken >= 1 =>
                 SubSeq(content, 1, Len(accepted[b_out.taken]))
                     = accepted[b_out.taken]
           /\ b_out.messages[2].role = "User"

\* three different entries, all accepted (the "CBAhi" case)
C2_Witness ==
    /\ b_out.done
    /\ b_out.taken = 3
    /\ Cardinality({b_in.context[j] : j \in 1..3}) = 3
    /\ <<>> \notin {b_in.context[j] : j \in 1..3}
    /\ b_in.message # <<>>

\* C3: the user message build_message returns is at most
\* message_limit_chars characters long, whatever the message and context.
C3_PromptWithinLimit ==
    b_out.done =>
        chars_count(BuiltContent) <= ROADMAP_CONFIG.message_limit_chars

\* C4: with nothing to consume (empty context, context_length = 0, or a
\* first entry longer than message_limit_chars - len(message)) the result is
\* exactly the system instruction followed by one user message holding the
\* message unchanged.
C4_NoContextConsumed ==
    ( /\ b_out.done
      /\ \/ b_in.context = <<>>
         \/ ROADMAP_CONFIG.context_length = 0
         \/ len(b_in.context[1])
              > ROADMAP_CONFIG.message_limit_chars - len(b_in.message) )
    => /\ Len(b_out.messages) = 2
       /\ b_out.messages[1] = b_in.system_message
       /\ b_out.messages[2].role = "User"
       /\ b_out.messages[2].content = Some(b_in.message)

\* a first entry that alone overflows the budget, with an empty entry behind
\* it that would have fitted
C4_Witness ==
    /\ b_out.done
    /\ b_in.context # <<>>
    /\ ROADMAP_CONFIG.context_length > 0
    /\ len(b_in.message) <= ROADMAP_CONFIG.message_limit_chars
    /\ len(b_in.context[1])
         > ROADMAP_CONFIG.message_limit_chars - len(b_in.message)
    /\ Len(b_in.context) >= 2
    /\ b_in.context[2] = <<>>

\* C9, as claimed: with two or more entries accepted, the most recently
\* accepted one stands immediately before the original message.
C9_LastAcceptedNextToMessage ==
    (b_out.done /\ b_out.taken >= 2) =>
        LET last == b_in.context[b_out.taken]
            n == Len(BuiltContent) - Len(b_in.message)
        IN SubSeq(BuiltContent, n - Len(last) + 1, n) = last

\* C9, amended: with two or more entries accepted, the first accepted one
\* stands immediately before the original message and the most recently
\* accepted one at the very front.
C9_FirstAcceptedNextToMessage ==
    (b_out.done /\ b_out.taken >= 2) =>
        LET first == b_in.context[1]
            last == b_in.context[b_out.taken]
            n == Len(BuiltContent) - Len(b_in.message)
        IN /\ SubSeq(BuiltContent, n - Len(first) + 1, n) = first
           /\ SubSeq(BuiltContent, 1, Len(last)) = last

C9_Witness ==
    /\ b_out.done
    /\ b_out.taken >= 2
    /\ b_in.context[1] # <<>>
    /\ b_in.context[b_out.taken] # <<>>
    /\ Head(b_in.context[1]) # Head(b_in.context[b_out.taken])

----------------------------------------------------------------------------
(* The two operations: properties of Spec *)

Ended(i) == calls[i].pc \in {"returned", "panicked"}

\* the content of the first completion choice of call i's reply
FirstContent(i) == Head(calls[i].outcome.choices).message.content

HasFirstChoice(i) == calls[i].outcome.ok /\ calls[i].outcome.choices # <<>>

\* a JSON object with a string member reason and a boolean member is_roadmap
IsJudgmentObject(text) ==
    /\ text.form = "object"
    /\ text.reason.t = "string"
    /\ text.is_roadmap.t = "bool"

\* C5: what is_message_roadmap_request returns is one of four things, by
\* the upstream outcome: UpstreamError on a transport failure,
\* UpstreamEmptyReply when the first choice has no content, MalformedResponse
\* when the content is not a JSON object {reason: string, is_roadmap:
\* boolean}, and otherwise a judgment with that object's two values.
C5_FourOutcomes ==
    \A i \in CallIds :
        (calls[i].op = "is_message_roadmap_request" /\ calls[i].pc = "returned") =>
               \/ /\ ~calls[i].outcome.ok
                  /\ calls[i].result.tag = "Err"
                  /\ calls[i].result.err = "UpstreamError"
               \/ /\ HasFirstChoice(i)
                  /\ ~FirstContent(i).some
                  /\ calls[i].result.tag = "Err"
                  /\ calls[i].result.err = "UpstreamEmptyReply"
               \/ /\ HasFirstChoice(i)
                  /\ FirstContent(i).some
                  /\ ~IsJudgmentObject(FirstContent(i).val)
                  /\ calls[i].result.tag = "Err"
                  /\ calls[i].result.err = "MalformedResponse"
               \/ /\ HasFirstChoice(i)
                  /\ FirstContent(i).some
                  /\ IsJudgmentObject(FirstContent(i).val)
                  /\ calls[i].result.tag = "Ok"
                  /\ calls[i].result.reason = FirstContent(i).val.reason.s
                  /\ calls[i].result.is_roadmap
                       = (FirstContent(i).val.is_roadmap.s = "true")

\* C6: create_roadmap hands the first choice's text back as it is, JSON or
\* not, empty or not; it never fails with MalformedResponse, and when it
\* fails it is with UpstreamEmptyReply (no content) or UpstreamError
\* (transport failure).
C6_ReplyVerbatim ==
    \A i \in CallIds :
        (calls[i].op = "create_roadmap" /\ calls[i].pc = "returned") =>
            /\ (HasFirstChoice(i) /\ FirstContent(i).some) =>
                  /\ calls[i].result.tag = "Ok"
                  /\ calls[i].result.roadmap = FirstContent(i).val
            /\ calls[i].result.err # "MalformedResponse"
            /\ calls[i].result.tag = "Err" =>
                  \/ /\ calls[i].result.err = "UpstreamEmptyReply"
                     /\ HasFirstChoice(i)
                     /\ ~FirstContent(i).some
                  \/ /\ calls[i].result.err = "UpstreamError"
                     /\ ~calls[i].outcome.ok

\* create_roadmap returned texts that are not a judgment: the empty string
\* in one call, a JSON array in another
C6_Witness ==
    \E i, j \in CallIds :
        /\ calls[i].op = "create_roadmap" /\ calls[i].pc = "returned"
        /\ calls[j].op = "create_roadmap" /\ calls[j].pc = "returned"
        /\ HasFirstChoice(i) /\ FirstContent(i) = Some(Prose(""))
        /\ HasFirstChoice(j) /\ FirstContent(j).some
        /\ FirstContent(j).val.form = "array"
        /\ calls[i].result.tag = "Ok"
        /\ calls[j].result.tag = "Ok"

\* the system instruction of an operation
SystemMessageOf(op) ==
    IF op = "is_message_roadmap_request"
    THEN system_message_detection
    ELSE system_message_creation

\* C7: a call submits exactly one request, made of the two messages
\* build_message gives for its message, its context and its operation's
\* system instruction; no outcome (success, UpstreamError, empty reply,
\* malformed content) makes it submit again.
C7_OneSubmission ==
    \A i \in CallIds :
        /\ calls[i].pc = "idle" => calls[i].sent = <<>>
        /\ calls[i].pc # "idle" =>
              /\ Len(calls[i].sent) = 1
              /\ Len(calls[i].sent[1].messages) = 2
              /\ calls[i].sent[1].messages
                   = build_message(calls[i].message, calls[i].context,
                                   SystemMessageOf(calls[i].op))

\* one call failed on the transport and the other on malformed content,
\* and both have returned
C7_Witness ==
    \E i, j \in CallIds :
        /\ calls[i].pc = "returned"
        /\ calls[i].result = Err("UpstreamError")
        /\ calls[j].pc = "returned"
        /\ calls[j].result = Err("MalformedResponse")

\* C8: what a call submits and what it returns depend on its own message,
\* context and reply alone, whatever other calls are in flight, and the
\* configuration and the two system instructions never change.
C8_CallsIndependent ==
    /\ ROADMAP_CONFIG = RoadmapConfig_default
    /\ \A i \in CallIds :
          calls[i].pc # "idle" =>
              calls[i].sent[1].messages[1].content
                  = Some(IF calls[i].op = "is_message_roadmap_request"
                         THEN DETECT_ROADMAP_PROMPT
                         ELSE CREATE_ROADMAP_PROMPT)
    /\ \A i, j \in CallIds :
          ( /\ calls[i].pc # "idle" /\ calls[j].pc # "idle"
            /\ calls[i].op = calls[j].op
            /\ calls[i].message = calls[j].message
            /\ calls[i].context = calls[j].context )
          => /\ calls[i].sent = calls[j].sent
             /\ (Ended(i) /\ Ended(j) /\ calls[i].outcome = calls[j].outcome)
                   => /\ calls[i].pc = calls[j].pc
                      /\ calls[i].result = calls[j].result

\* two calls of the same operation with the same arguments (a context among
\* them) and the same reply, both returned
C8_Witness ==
    \E i, j \in CallIds :
        /\ i # j
        /\ calls[i].pc = "returned" /\ calls[j].pc = "returned"
        /\ calls[i].op = calls[j].op
        /\ calls[i].message = calls[j].message
        /\ calls[i].context = calls[j].context
        /\ calls[i].context # <<>>
        /\ calls[i].outcome = calls[j].outcome
        /\ calls[i].result.tag = "Ok"

\* C10: no call ever panics instead of returning, whatever the reply, a
\* successful reply with zero choices included.
C10_NeverPanics ==
    \A i \in CallIds : calls[i].pc # "panicked"

====
